---- MODULE Spec2Model ----
(***************************************************************************)
(* twilight-cloudflare-workers (src/src/lib.rs): verification of an        *)
(* inbound interaction request (request), the error type it returns        *)
(* (ProcessRequestError, its accessors, its Display text and its HTTP      *)
(* response) and the builder of the outgoing response (response).          *)
(*                                                                         *)
(* Texts and byte strings are sequences of chunks; a chunk is a string     *)
(* standing for one byte (or, for a JSON key, for the bytes of the key).   *)
(* An Ed25519 signature is ideal: it names its signer and the message it   *)
(* was made over, and verifies under exactly that signer's public key and  *)
(* that message.                                                           *)
(***************************************************************************)
EXTENDS Integers, Sequences, FiniteSets, TLC

VARIABLES
    pc,               \* position inside request(): "idle", a stage, "bytes_pending",
                      \* "done", "consumed", "cancelled"
    req,              \* the worker Request handed to request()
    public_key,       \* the public key string handed to request()
    timestamp,        \* local `timestamp` (Option)
    signature_header, \* local `signature_header` (Option)
    signature,        \* local `signature` (Option)
    hex,              \* local `hex` (Option)
    key,              \* local `key` (Option)
    body,             \* local `body` (Option)
    result,           \* what request() returned (Option of Ok/Err)
    reads,            \* how many times req.bytes() was called in this call
    verifies,         \* how many times key.verify() was called in this call
    passed,           \* the stages this call has passed, in order
    calls,            \* how many calls were made with these inputs
    prev,             \* what the first call with these inputs returned (Option)
    reused,           \* whether this call got a Request whose body was read before
    out               \* what the last accessor or builder returned

vars == <<pc, req, public_key, timestamp, signature_header, signature, hex, key,
          body, result, reads, verifies, passed, calls, prev, reused, out>>

----------------------------------------------------------------------------
(* Bounds of the model. *)

\* Number of Ed25519 key pairs of the world (signers of requests).
NumKeyPairs == 2

\* Number of calls of request() made with identical inputs.
MaxCalls == 2

(* Program constants. *)

\* ed25519_dalek::PUBLIC_KEY_LENGTH, the length of the decoded key array.
PUBLIC_KEY_LENGTH == 32

\* Length in bytes of an Ed25519 signature, which the header's parse() expects.
SIGNATURE_LENGTH == 64

----------------------------------------------------------------------------
(* Option and Result. *)

None == <<>>
Some(x) == <<x>>
Ok(v) == [tag |-> "Ok", val |-> v]
Err(e) == [tag |-> "Err", val |-> e]

----------------------------------------------------------------------------
(* InteractionRequestHeaderName and ProcessRequestErrorType. *)

InteractionRequestHeaderName == {"Signature", "Timestamp"}

\* InteractionRequestHeaderName::name
name(header) ==
    IF header = "Signature" THEN "x-signature-ed25519" ELSE "x-signature-timestamp"

ChunkingBody == [type |-> "ChunkingBody"]
DeserializingInteraction(b) == [type |-> "DeserializingInteraction", body |-> b]
FromHex == [type |-> "FromHex"]
InvalidPublicKey == [type |-> "InvalidPublicKey"]
InvalidSignature == [type |-> "InvalidSignature"]
MissingHeader(header) == [type |-> "MissingHeader", header |-> header]
RouteIncorrect(method, path) == [type |-> "RouteIncorrect", method |-> method, path |-> path]

\* struct ProcessRequestError { kind, source }
ProcessRequestError(k, source) == [kind |-> k, source |-> source]

----------------------------------------------------------------------------
(* The inputs of request(). *)

\* worker::Method, and its Display (method.to_string()).
Methods == {"Post", "Get"}
MethodToString(m) == IF m = "Post" THEN "POST" ELSE "GET"

\* str::to_ascii_lowercase on the method names.
to_ascii_lowercase(s) ==
    IF s = "POST" THEN "post" ELSE IF s = "GET" THEN "get" ELSE s

Paths == {"/", "/a"}

\* Values of the timestamp header: ASCII digit strings.
Timestamps == {<<"1">>, <<"1", "7">>}

\* Request bodies: two interactions, a JSON object that is no interaction, a
\* body that starts with a digit, bytes that are not UTF-8, and the empty body.
Bodies ==
    { <<"{", "type", ":", "1", "}">>,
      <<"{", "type", ":", "2", "}">>,
      <<"{", "}">>,
      <<"7", "{", "type", ":", "1", "}">>,
      <<"0xFF">>,
      <<>> }

KeyPairs == 1..NumKeyPairs

\* The 32 bytes of the public key of key pair i; 0 stands for 32 bytes that
\* are not the encoding of a curve point.
PublicKeyBytes(i) == i
NotAPoint == 0

\* An ideal signature by key pair i over message m.
Sign(i, m) == [signer |-> i, msg |-> m]

\* A hexadecimal string: its length in characters, whether every character
\* is a hexadecimal digit, the case of its letters ("lower", "upper" or
\* "mixed") and the bytes it decodes to.
HexString(n, ishex, case, decoded) ==
    [chars |-> n, ishex |-> ishex, case |-> case, decoded |-> decoded]
HexEncode(n, case, decoded) == HexString(2 * n, TRUE, case, decoded)

SignedMessages == { t \o b : t \in Timestamps, b \in Bodies }
Signatures == { Sign(i, m) : i \in KeyPairs, m \in SignedMessages }
ASignature == Sign(1, <<"1">>)

\* Values of the signature header: every signature in lower-case
\* hexadecimal, the signatures of key pair 1 over the first interaction also
\* in upper and in mixed case, one string of the right length that is not
\* hexadecimal, and one that is too short.
SignatureHeaders ==
    { HexEncode(SIGNATURE_LENGTH, "lower", s) : s \in Signatures }
        \cup { HexEncode(SIGNATURE_LENGTH, c, Sign(1, t \o <<"{", "type", ":", "1", "}">>)) :
                 c \in {"upper", "mixed"}, t \in Timestamps }
        \cup { HexString(2 * SIGNATURE_LENGTH, FALSE, "lower", ASignature),
               HexString(2 * SIGNATURE_LENGTH - 2, TRUE, "lower", ASignature) }

\* Public key strings: every public key in lower-case hexadecimal, the first
\* also in mixed case, 32 bytes that are no curve point, a string that is not
\* hexadecimal, one of odd length and one that decodes to 31 bytes.
PublicKeyStrings ==
    { HexEncode(PUBLIC_KEY_LENGTH, "lower", PublicKeyBytes(i)) : i \in KeyPairs }
        \cup { HexEncode(PUBLIC_KEY_LENGTH, "mixed", PublicKeyBytes(1)),
               HexEncode(PUBLIC_KEY_LENGTH, "lower", NotAPoint),
               HexString(2 * PUBLIC_KEY_LENGTH, FALSE, "lower", PublicKeyBytes(1)),
               HexString(2 * PUBLIC_KEY_LENGTH - 1, TRUE, "lower", PublicKeyBytes(1)),
               HexString(2 * PUBLIC_KEY_LENGTH - 2, TRUE, "lower", PublicKeyBytes(1)) }

\* A worker Request as the caller receives it: method, path, the two headers
\* the code looks up, the body, whether the body stream can be read to its
\* end, and whether the body was read already (body_used).
Requests ==
    { [method |-> m, path |-> p,
       headers |-> [n \in {name(h) : h \in InteractionRequestHeaderName} |->
                       IF n = "x-signature-ed25519" THEN s ELSE t],
       body |-> b, readable |-> r, body_used |-> FALSE] :
        m \in Methods, p \in Paths,
        t \in {None} \cup {Some(x) : x \in Timestamps},
        s \in {None} \cup {Some(x) : x \in SignatureHeaders},
        b \in Bodies, r \in BOOLEAN }

----------------------------------------------------------------------------
(* The library calls request() makes, each by what it returns. *)

\* req.headers().get(name): the value of the header, if the request has it.
HeadersGet(r, n) == r.headers[n]

\* signature_header.parse(): an Ed25519 signature from 128 hexadecimal
\* characters whose letters are all of one case.
parse(s) ==
    IF s.chars # 2 * SIGNATURE_LENGTH THEN Err("signature::Error")
    ELSE IF ~s.ishex THEN Err("signature::Error")
    ELSE IF s.case = "mixed" THEN Err("signature::Error")
    ELSE Ok(s.decoded)

\* <[u8; PUBLIC_KEY_LENGTH] as FromHex>::from_hex(public_key): letters of
\* either case, also mixed.
from_hex(s) ==
    IF s.chars % 2 # 0 THEN Err("FromHexError::OddLength")
    ELSE IF s.chars \div 2 # PUBLIC_KEY_LENGTH THEN Err("FromHexError::InvalidStringLength")
    ELSE IF ~s.ishex THEN Err("FromHexError::InvalidHexCharacter")
    ELSE Ok(s.decoded)

\* PublicKey::from_bytes(&hex): the bytes must be the encoding of a curve point.
from_bytes(b) ==
    IF b \in KeyPairs THEN Ok([point |-> b]) ELSE Err("ed25519::SignatureError")

\* req.bytes().await, once the read was started: the whole body, or the
\* error of the stream.
bytes(r) == IF r.readable THEN Ok(r.body) ELSE Err("worker::Error")

\* Variants of message: with a delimiter between the two parts, and of the
\* timestamp alone.
MessageDelimited(t, b) == t \o <<":">> \o b
MessageTimestampOnly(t, b) == t

\* Vec::from([timestamp.as_bytes(), &body]).concat()
message(t, b) == t \o b

\* Variant of verify that remembers the requests it has seen and rejects a
\* repeated one.
VerifyOncePerInput(k, m, s) ==
    IF calls = 1 /\ s.signer = k.point /\ s.msg = m
    THEN Ok("verified") ELSE Err("ed25519::SignatureError")

\* key.verify(&message, &signature)
verify(k, m, s) ==
    IF s.signer = k.point /\ s.msg = m THEN Ok("verified") ELSE Err("ed25519::SignatureError")

\* serde_json::from_slice::<Interaction>(&body): an object with the key
\* "type" and an interaction type.
InteractionTypes == {"1", "2"}
TypeValue(d) == IF d = "1" THEN 1 ELSE 2
from_slice(b) ==
    IF /\ Len(b) = 5
       /\ b[1] = "{" /\ b[2] = "type" /\ b[3] = ":" /\ b[4] \in InteractionTypes
       /\ b[5] = "}"
    THEN Ok([type |-> TypeValue(b[4])])
    ELSE Err("serde_json::Error")

----------------------------------------------------------------------------
(* request(): one action per statement; a failing statement returns. *)

Stages == <<"route", "timestamp", "signature_header", "parse", "from_hex",
            "from_bytes", "bytes", "verify", "from_slice">>

\* Variant of StageAfter that fetches the body before the public key is
\* decoded.
StageBodyBeforeKey(s) ==
    CASE s = "route" -> "timestamp"
      [] s = "timestamp" -> "signature_header"
      [] s = "signature_header" -> "parse"
      [] s = "parse" -> "bytes"
      [] s = "bytes" -> "from_hex"
      [] s = "from_hex" -> "from_bytes"
      [] s = "from_bytes" -> "verify"
      [] s = "verify" -> "from_slice"
      [] OTHER -> "done"

\* The order of the statements of request().
StageAfter(s) ==
    IF \E i \in 1..(Len(Stages) - 1) : Stages[i] = s
    THEN Stages[(CHOOSE i \in 1..(Len(Stages) - 1) : Stages[i] = s) + 1]
    ELSE "done"

Locals == <<timestamp, signature_header, signature, hex, key, body>>
Inputs == <<req, public_key, calls, prev, reused>>

\* A statement succeeded: go to the next one.
Pass(s) ==
    /\ pc' = StageAfter(s)
    /\ passed' = Append(passed, s)
    /\ result' = result

\* return Err(ProcessRequestError { kind, source })
Fail(k, source) ==
    /\ pc' = "done"
    /\ passed' = passed
    /\ result' = Some(Err(ProcessRequestError(k, source)))

\* The caller calls request(&mut req, public_key).
Call ==
    /\ pc = "idle"
    /\ \E r \in Requests, k \in PublicKeyStrings :
        /\ req' = r
        /\ public_key' = k
    /\ pc' = "route"
    /\ calls' = 1
    /\ prev' = None
    /\ reused' = FALSE
    /\ out' = [op |-> "none"]
    /\ UNCHANGED <<Locals, result, reads, verifies, passed>>

\* Variant of RouteMatches that accepts a request when either part matches.
RouteMatchesEither(method, path) == method = "Post" \/ path = "/"

\* The negation of: method != Method::Post || path != "/"
RouteMatches(method, path) == method = "Post" /\ path = "/"

RouteCheck ==
    /\ pc = "route"
    /\ IF RouteMatches(req.method, req.path)
       THEN Pass("route")
       ELSE Fail(RouteIncorrect(MethodToString(req.method), req.path), None)
    /\ UNCHANGED <<Inputs, Locals, reads, verifies, out>>

\* Variant of GetTimestamp that takes a missing header for an empty one.
GetTimestampOrDefault ==
    /\ pc = "timestamp"
    /\ LET got == HeadersGet(req, name("Timestamp")) IN
        Pass("timestamp") /\ timestamp' = (IF got # None THEN got ELSE Some(<<>>))
    /\ UNCHANGED <<Inputs, signature_header, signature, hex, key, body, reads,
                   verifies, out>>

\* let timestamp = req.headers().get(Timestamp.name()).ok_or(MissingHeader)?
GetTimestamp ==
    /\ pc = "timestamp"
    /\ LET got == HeadersGet(req, name("Timestamp")) IN
        IF got # None
        THEN Pass("timestamp") /\ timestamp' = got
        ELSE Fail(MissingHeader("Timestamp"), None) /\ timestamp' = timestamp
    /\ UNCHANGED <<Inputs, signature_header, signature, hex, key, body, reads,
                   verifies, out>>

\* let signature_header = req.headers().get(Signature.name()).ok_or(MissingHeader)?
GetSignatureHeader ==
    /\ pc = "signature_header"
    /\ LET got == HeadersGet(req, name("Signature")) IN
        IF got # None
        THEN Pass("signature_header") /\ signature_header' = got
        ELSE Fail(MissingHeader("Signature"), None)
             /\ signature_header' = signature_header
    /\ UNCHANGED <<Inputs, timestamp, signature, hex, key, body, reads, verifies, out>>

\* let signature = signature_header.parse().map_err(InvalidSignature)?
ParseSignature ==
    /\ pc = "parse"
    /\ LET got == parse(signature_header[1]) IN
        IF got.tag = "Ok"
        THEN Pass("parse") /\ signature' = Some(got.val)
        ELSE Fail(InvalidSignature, Some(got.val)) /\ signature' = signature
    /\ UNCHANGED <<Inputs, timestamp, signature_header, hex, key, body, reads,
                   verifies, out>>

\* let hex = from_hex(public_key).map_err(FromHex)?
DecodePublicKey ==
    /\ pc = "from_hex"
    /\ LET got == from_hex(public_key) IN
        IF got.tag = "Ok"
        THEN Pass("from_hex") /\ hex' = Some(got.val)
        ELSE Fail(FromHex, Some(got.val)) /\ hex' = hex
    /\ UNCHANGED <<Inputs, timestamp, signature_header, signature, key, body, reads,
                   verifies, out>>

\* let key = PublicKey::from_bytes(&hex).map_err(InvalidPublicKey)?
ValidatePublicKey ==
    /\ pc = "from_bytes"
    /\ LET got == from_bytes(hex[1]) IN
        IF got.tag = "Ok"
        THEN Pass("from_bytes") /\ key' = Some(got.val)
        ELSE Fail(InvalidPublicKey, Some(got.val)) /\ key' = key
    /\ UNCHANGED <<Inputs, timestamp, signature_header, signature, hex, body, reads,
                   verifies, out>>

\* req.bytes() is called: a body that was read before is an error at once;
\* otherwise the body is marked used, the read starts and request() is
\* suspended on it.
StartFetchBody ==
    /\ pc = "bytes"
    /\ reads' = reads + 1
    /\ IF req.body_used
       THEN Fail(ChunkingBody, Some("worker::Error::BodyUsed")) /\ req' = req
       ELSE /\ req' = [req EXCEPT !.body_used = TRUE]
            /\ pc' = "bytes_pending"
            /\ UNCHANGED <<passed, result>>
    /\ UNCHANGED <<public_key, calls, prev, reused, Locals, verifies, out>>

\* let body = req.bytes().await.map_err(ChunkingBody)?  (the read is over)
FetchBody ==
    /\ pc = "bytes_pending"
    /\ LET got == bytes(req) IN
        IF got.tag = "Ok"
        THEN Pass("bytes") /\ body' = Some(got.val)
        ELSE Fail(ChunkingBody, Some(got.val)) /\ body' = body
    /\ UNCHANGED <<Inputs, timestamp, signature_header, signature, hex, key,
                   reads, verifies, out>>

\* The future of request() is dropped while it is suspended on the read: the
\* call returns nothing.
CancelFetchBody ==
    /\ pc = "bytes_pending"
    /\ pc' = "cancelled"
    /\ UNCHANGED <<Inputs, Locals, result, reads, verifies, passed, out>>

\* if let Err(source) = key.verify(&message, &signature) { return Err(InvalidSignature) }
VerifySignature ==
    /\ pc = "verify"
    /\ verifies' = verifies + 1
    /\ LET got == verify(key[1], message(timestamp[1], body[1]), signature[1]) IN
        IF got.tag = "Ok"
        THEN Pass("verify")
        ELSE Fail(InvalidSignature, Some(got.val))
    /\ UNCHANGED <<Inputs, Locals, reads, out>>

\* serde_json::from_slice(&body).map_err(DeserializingInteraction { body })
Deserialize ==
    /\ pc = "from_slice"
    /\ LET got == from_slice(body[1]) IN
        IF got.tag = "Ok"
        THEN /\ pc' = "done"
             /\ passed' = Append(passed, "from_slice")
             /\ result' = Some(Ok(got.val))
        ELSE Fail(DeserializingInteraction(body[1]), Some(got.val))
    /\ UNCHANGED <<Inputs, Locals, reads, verifies, out>>

----------------------------------------------------------------------------
(* ProcessRequestError: accessors, Display and the HTTP response. *)

\* ProcessRequestError::kind
kind(e) == e.kind

\* ProcessRequestError::into_source
into_source(e) == e.source

\* ProcessRequestError::into_parts
into_parts(e) == <<e.kind, None>>

\* str::from_utf8(body).is_ok(): 0xFF is in no UTF-8 text.
IsUtf8(b) == \A i \in 1..Len(b) : b[i] # "0xFF"

\* The decimal numbers Debug prints for the bytes of one chunk.
DebugByte(c) ==
    CASE c = "{" -> "123"
      [] c = "}" -> "125"
      [] c = ":" -> "58"
      [] c = "1" -> "49"
      [] c = "2" -> "50"
      [] c = "7" -> "55"
      [] c = "type" -> "34, 116, 121, 112, 101, 34"
      [] OTHER -> "255"

\* Debug::fmt of a Vec<u8>: [b1, b2, ...]
RECURSIVE DebugList(_)
DebugList(b) ==
    IF b = <<>> THEN <<>>
    ELSE IF Len(b) = 1 THEN <<DebugByte(b[1])>>
    ELSE <<DebugByte(b[1]), ", ">> \o DebugList(Tail(b))
DebugFmt(b) == <<"[">> \o DebugList(b) \o <<"]">>

\* Variant of fmt that leaves the body out.
FmtWithoutBody(e) ==
    LET k == kind(e) IN
    CASE k.type = "ChunkingBody" -> <<"failed to chunk request body">>
      [] k.type = "DeserializingInteraction" ->
            <<"failed to deserialize request body as interaction: ">>
      [] k.type = "FromHex" -> <<"failed to register public key">>
      [] k.type = "InvalidPublicKey" -> <<"public key is invalid">>
      [] k.type = "InvalidSignature" -> <<"signature is invalid">>
      [] k.type = "MissingHeader" -> <<"header '", name(k.header), "' is invalid">>
      [] k.type = "RouteIncorrect" ->
            <<"route of the request ('", to_ascii_lowercase(k.method), " ", k.path,
              "') is not 'post /'">>

\* impl Display for ProcessRequestError
fmt(e) ==
    LET k == kind(e) IN
    CASE k.type = "ChunkingBody" -> <<"failed to chunk request body">>
      [] k.type = "DeserializingInteraction" ->
            <<"failed to deserialize request body as interaction: ">>
                \o (IF IsUtf8(k.body) THEN k.body ELSE DebugFmt(k.body))
      [] k.type = "FromHex" -> <<"failed to register public key">>
      [] k.type = "InvalidPublicKey" -> <<"public key is invalid">>
      [] k.type = "InvalidSignature" -> <<"signature is invalid">>
      [] k.type = "MissingHeader" -> <<"header '", name(k.header), "' is invalid">>
      [] k.type = "RouteIncorrect" ->
            <<"route of the request ('", to_ascii_lowercase(k.method), " ", k.path,
              "') is not 'post /'">>

\* worker::Response::error(msg, status) and worker::Response::ok(body)
ResponseError(msg, status) == [status |-> status, headers |-> {}, body |-> msg]
ResponseOk(text) == [status |-> 200, headers |-> {}, body |-> text]

\* Headers::set(name, value): the header has this one value afterwards.
HeadersSet(h, n, v) == {p \in h : p[1] # n} \cup {<<n, v>>}

\* Variant of ErrorResponse that also answers 401 to a missing header.
ErrorResponseMissingHeader401(e) ==
    ResponseError(fmt(e),
        IF kind(e).type \in {"InvalidSignature", "MissingHeader"} THEN 401 ELSE 500)

\* ProcessRequestError::response
ErrorResponse(e) ==
    ResponseError(fmt(e), IF kind(e).type = "InvalidSignature" THEN 401 ELSE 500)

----------------------------------------------------------------------------
(* response(): the HTTP response of an InteractionResponse. *)

\* InteractionResponse { kind, data }; `serializes` tells whether its
\* Serialize implementation succeeds.
InteractionResponses ==
    { [kind |-> k, data |-> d, serializes |-> s] :
        k \in {1, 4}, d \in {None, Some("hi"), Some("yo")}, s \in BOOLEAN }

KindDigit(k) == IF k = 1 THEN "1" ELSE "4"
DigitKind(d) == IF d = "1" THEN 1 ELSE 4

\* Variant of ToJson that leaves the data out.
ToJsonWithoutData(r) == <<"{", "type", ":", KindDigit(r.kind), "}">>

\* The JSON text of an InteractionResponse: {"type":k} or
\* {"type":k,"data":{"content":c}}.
ToJson(r) ==
    IF r.data = None
    THEN <<"{", "type", ":", KindDigit(r.kind), "}">>
    ELSE <<"{", "type", ":", KindDigit(r.kind), ",", "data", ":",
           "{", "content", ":", r.data[1], "}", "}">>

\* serde_json::to_string(response)
to_string(r) == IF r.serializes THEN Ok(ToJson(r)) ELSE Err("serde_json::Error")

\* The InteractionResponse a JSON text deserializes to, if any.
FromJson(t) ==
    IF Len(t) = 5 /\ SubSeq(t, 1, 3) = <<"{", "type", ":">> /\ t[4] \in {"1", "4"}
          /\ t[5] = "}"
    THEN Some([kind |-> DigitKind(t[4]), data |-> None, serializes |-> TRUE])
    ELSE IF Len(t) = 13 /\ SubSeq(t, 1, 3) = <<"{", "type", ":">> /\ t[4] \in {"1", "4"}
          /\ SubSeq(t, 5, 10) = <<",", "data", ":", "{", "content", ":">>
          /\ SubSeq(t, 12, 13) = <<"}", "}">>
    THEN Some([kind |-> DigitKind(t[4]), data |-> Some(t[11]), serializes |-> TRUE])
    ELSE None

\* response(response: &InteractionResponse) -> Response
response(r) ==
    LET json == to_string(r) IN
    IF json.tag # "Ok"
    THEN ResponseError(<<"failed to serialize interaction response">>, 500)
    ELSE LET ok == ResponseOk(json.val) IN
         [ok EXCEPT !.headers = HeadersSet(ok.headers, "Content-Type", "application/json")]

----------------------------------------------------------------------------
(* What the caller does with the result, and the next call. *)

Returned == pc \in {"done", "consumed", "cancelled"}
Failed == pc = "done" /\ result # None /\ result[1].tag = "Err"

\* source.kind()
CallKind ==
    /\ Failed
    /\ out' = [op |-> "kind", val |-> kind(result[1].val)]
    /\ UNCHANGED <<pc, Inputs, Locals, result, reads, verifies, passed>>

\* source.response()
CallErrorResponse ==
    /\ Failed
    /\ out' = [op |-> "error_response", val |-> ErrorResponse(result[1].val)]
    /\ UNCHANGED <<pc, Inputs, Locals, result, reads, verifies, passed>>

\* source.into_source(): consumes the error.
CallIntoSource ==
    /\ Failed
    /\ out' = [op |-> "into_source", val |-> into_source(result[1].val)]
    /\ pc' = "consumed"
    /\ UNCHANGED <<Inputs, Locals, result, reads, verifies, passed>>

\* source.into_parts(): consumes the error.
CallIntoParts ==
    /\ Failed
    /\ out' = [op |-> "into_parts", val |-> into_parts(result[1].val)]
    /\ pc' = "consumed"
    /\ UNCHANGED <<Inputs, Locals, result, reads, verifies, passed>>

\* response(&interaction_response), between two requests or while a request
\* is suspended.
CallResponse ==
    /\ pc \in {"idle", "bytes_pending"}
    /\ \E r \in InteractionResponses :
        out' = [op |-> "response", arg |-> r, val |-> response(r)]
    /\ UNCHANGED <<pc, Inputs, Locals, result, reads, verifies, passed>>

\* The start of a further call of request() with the same public key string.
Again ==
    /\ Returned
    /\ calls < MaxCalls
    /\ calls' = calls + 1
    /\ prev' = IF calls = 1 THEN result ELSE prev
    /\ pc' = "route"
    /\ timestamp' = None /\ signature_header' = None /\ signature' = None
    /\ hex' = None /\ key' = None /\ body' = None
    /\ result' = None
    /\ reads' = 0 /\ verifies' = 0 /\ passed' = <<>>
    /\ out' = [op |-> "none"]
    /\ UNCHANGED public_key

\* request() is called again with the same Request (req: &mut Request): what
\* the earlier call did to it stays done.
CallAgainSameRequest ==
    /\ Again
    /\ req' = req
    /\ reused' = req.body_used

\* request() is called again with another Request of the same method, path,
\* headers and body, whose body was not read yet.
CallAgainEqualRequest ==
    /\ Again
    /\ req' = [req EXCEPT !.body_used = FALSE]
    /\ reused' = FALSE

NoRequest ==
    [method |-> "Get", path |-> "/",
     headers |-> [n \in {name(h) : h \in InteractionRequestHeaderName} |-> None],
     body |-> <<>>, readable |-> FALSE, body_used |-> FALSE]
NoKey == HexString(0, TRUE, "lower", NotAPoint)

Init ==
    /\ pc = "idle"
    /\ req = NoRequest
    /\ public_key = NoKey
    /\ timestamp = None /\ signature_header = None /\ signature = None
    /\ hex = None /\ key = None /\ body = None
    /\ result = None
    /\ reads = 0 /\ verifies = 0 /\ passed = <<>>
    /\ calls = 0
    /\ prev = None
    /\ reused = FALSE
    /\ out = [op |-> "none"]

\* The exchange is over: nothing of it is kept.
Finish ==
    /\ Returned
    /\ pc' = "idle"
    /\ req' = NoRequest
    /\ public_key' = NoKey
    /\ timestamp' = None /\ signature_header' = None /\ signature' = None
    /\ hex' = None /\ key' = None /\ body' = None
    /\ result' = None
    /\ reads' = 0 /\ verifies' = 0 /\ passed' = <<>>
    /\ calls' = 0
    /\ prev' = None
    /\ reused' = FALSE
    /\ out' = [op |-> "none"]

Next ==
    \/ Call
    \/ RouteCheck
    \/ GetTimestamp
    \/ GetSignatureHeader
    \/ ParseSignature
    \/ DecodePublicKey
    \/ ValidatePublicKey
    \/ StartFetchBody
    \/ FetchBody
    \/ CancelFetchBody
    \/ VerifySignature
    \/ Deserialize
    \/ CallKind
    \/ CallErrorResponse
    \/ CallIntoSource
    \/ CallIntoParts
    \/ CallResponse
    \/ CallAgainSameRequest
    \/ CallAgainEqualRequest
    \/ Finish

Spec == Init /\ [][Next]_vars

----------------------------------------------------------------------------
(* What the properties say about the inputs of a call. *)

TimestampHeader == req.headers["x-signature-timestamp"]
SignatureHeader == req.headers["x-signature-ed25519"]

Completed == Returned /\ result # None
FailedWith(k, source) == result = Some(Err([kind |-> k, source |-> source]))
FailedWithKind(t) ==
    result # None /\ result[1].tag = "Err" /\ result[1].val.kind.type = t

RouteIsPostRoot == req.method = "Post" /\ req.path = "/"
BothHeaders == TimestampHeader # None /\ SignatureHeader # None

\* The signature header has 128 characters, all hexadecimal digits.
HexSignature ==
    /\ SignatureHeader # None
    /\ SignatureHeader[1].chars = 128
    /\ SignatureHeader[1].ishex

\* Its letters are moreover all lower-case or all upper-case.
WellFormedSignature == HexSignature /\ SignatureHeader[1].case # "mixed"

\* The body of the request has not been read before and its stream does not
\* fail.
BodyIsRead == req.readable /\ ~reused
KeyDecodes == public_key.chars = 64 /\ public_key.ishex
KeyValid == KeyDecodes /\ public_key.decoded \in KeyPairs

\* The signature header is the hexadecimal text of a signature made by the
\* private key of the supplied public key over the timestamp followed by the
\* body, nothing between them.
SignedOverTimestampThenBody ==
    /\ BothHeaders /\ HexSignature /\ KeyValid
    /\ SignatureHeader[1].decoded.signer = public_key.decoded
    /\ SignatureHeader[1].decoded.msg = TimestampHeader[1] \o req.body

\* What a call returned, as the caller tells results apart: the payload, or
\* the kind of the error.
Outcome(r) == IF r.tag = "Ok" THEN r ELSE [tag |-> "Err", val |-> r.val.kind]

IsInteraction(b) == b \in { <<"{", "type", ":", "1", "}">>, <<"{", "type", ":", "2", "}">> }
InteractionOf(b) == [type |-> IF b[4] = "1" THEN 1 ELSE 2]

\* The text holds the bytes of b, one after the other.
Contains(text, b) ==
    /\ b # <<>>
    /\ \E i \in 1..(Len(text) - Len(b) + 1) : SubSeq(text, i, i + Len(b) - 1) = b

DeserializePrefix == <<"failed to deserialize request body as interaction: ">>

----------------------------------------------------------------------------
(* The properties. *)

\* C1, as stated: the body of the response of an error never contains the
\* bytes of the request body, whatever the kind of the error.
C1_ResponseNeverContainsBody ==
    out.op = "error_response" => ~Contains(out.val.body, req.body)

\* C1, amended: the body of the response of an error contains the bytes of
\* the request body for no kind but DeserializingInteraction; for that kind it
\* is the fixed prefix followed by the request body when the body is UTF-8,
\* and by the Debug list of its bytes when it is not.
C1_ResponseContainsBodyOnlyWhenDeserializing ==
    out.op = "error_response" =>
        LET text == out.val.body IN
        /\ ~FailedWithKind("DeserializingInteraction") => ~Contains(text, req.body)
        /\ FailedWithKind("DeserializingInteraction") /\ IsUtf8(req.body) =>
              text = DeserializePrefix \o req.body
        /\ FailedWithKind("DeserializingInteraction") /\ ~IsUtf8(req.body) =>
              /\ text = DeserializePrefix \o DebugFmt(req.body)
              /\ ~Contains(text, req.body)

C1_Witness ==
    /\ out.op = "error_response"
    /\ FailedWithKind("DeserializingInteraction")
    /\ req.body = <<"{", "}">>
    /\ Contains(out.val.body, req.body)

\* C2: the status of the response of an error is 401 exactly when the kind is
\* InvalidSignature and 500 for each of the six other kinds.
C2_StatusByKind ==
    out.op = "error_response" =>
        LET t == result[1].val.kind.type
            s == out.val.status
        IN  /\ t \in {"InvalidSignature", "ChunkingBody", "DeserializingInteraction",
                      "FromHex", "InvalidPublicKey", "MissingHeader", "RouteIncorrect"}
            /\ s = 401 <=> t = "InvalidSignature"
            /\ t # "InvalidSignature" => s = 500

C2_Witness ==
    /\ out.op = "error_response"
    /\ FailedWithKind("MissingHeader")
    /\ out.val.status = 500

\* C3: a request that is not POST / fails with RouteIncorrect, which carries
\* the method and the path, whatever its headers, its body and the key are.
C3_RouteCheckedFirst ==
    Completed /\ ~RouteIsPostRoot =>
        FailedWith([type |-> "RouteIncorrect",
                    method |-> IF req.method = "Post" THEN "POST" ELSE "GET",
                    path |-> req.path], None)

C3_Witness ==
    /\ Completed
    /\ req.method = "Post" /\ req.path = "/a"
    /\ TimestampHeader = None /\ ~HexSignature /\ ~KeyDecodes /\ ~req.readable
    /\ FailedWithKind("RouteIncorrect")

\* C4: a POST / request without the timestamp header fails with
\* MissingHeader(Timestamp), also without the signature header; it fails with
\* MissingHeader(Signature) exactly when it has the timestamp header and not
\* the signature header.
C4_TimestampHeaderFirst ==
    Completed =>
        /\ RouteIsPostRoot /\ TimestampHeader = None =>
              FailedWith([type |-> "MissingHeader", header |-> "Timestamp"], None)
        /\ RouteIsPostRoot /\ TimestampHeader # None /\ SignatureHeader = None =>
              FailedWith([type |-> "MissingHeader", header |-> "Signature"], None)
        /\ (FailedWithKind("MissingHeader") /\ result[1].val.kind.header = "Signature") =>
              RouteIsPostRoot /\ TimestampHeader # None /\ SignatureHeader = None

C4_Witness ==
    /\ Completed
    /\ RouteIsPostRoot /\ TimestampHeader = None /\ SignatureHeader = None
    /\ ~KeyDecodes /\ ~req.readable
    /\ FailedWithKind("MissingHeader")

\* C5: a POST / request with both headers fails with InvalidSignature when
\* (a) the signature header is malformed (wrong length or not hexadecimal),
\* whatever the key and the body are, and when (b) the signature header is
\* hexadecimal of the right length, the key is valid, the body is read and
\* the signature does not verify over timestamp then body.
C5_InvalidSignature ==
    Completed /\ RouteIsPostRoot /\ BothHeaders =>
        /\ ~HexSignature => FailedWithKind("InvalidSignature")
        /\ (HexSignature /\ KeyValid /\ BodyIsRead /\ ~SignedOverTimestampThenBody)
              => FailedWithKind("InvalidSignature")

\* The body was changed after the signature was made.
C5_Witness ==
    /\ Completed /\ RouteIsPostRoot /\ BothHeaders
    /\ WellFormedSignature /\ KeyValid /\ BodyIsRead
    /\ SignatureHeader[1].decoded.signer = public_key.decoded
    /\ SignatureHeader[1].decoded.msg = TimestampHeader[1] \o <<"{", "type", ":", "1", "}">>
    /\ req.body = <<"{", "type", ":", "2", "}">>
    /\ verifies = 1
    /\ FailedWithKind("InvalidSignature")

\* C6, as stated: a POST / request whose signature header is the signature
\* over timestamp then body by the private key of the supplied public key
\* returns the interaction of the body when the body is one, and
\* DeserializingInteraction with exactly the body otherwise; and no
\* interaction is returned unless the request was signed so.
C6_RoundTrip ==
    Completed =>
        /\ (RouteIsPostRoot /\ SignedOverTimestampThenBody /\ BodyIsRead) =>
              IF IsInteraction(req.body)
              THEN result = Some(Ok(InteractionOf(req.body)))
              ELSE FailedWith([type |-> "DeserializingInteraction", body |-> req.body],
                              Some("serde_json::Error"))
        /\ result[1].tag = "Ok" =>
              RouteIsPostRoot /\ SignedOverTimestampThenBody /\ BodyIsRead

\* C6, amended: the same, for a signature header whose hexadecimal letters
\* are all lower-case or all upper-case; a header that mixes the two cases
\* fails with InvalidSignature although its signature is the right one.
C6_RoundTripSingleCase ==
    Completed =>
        /\ (RouteIsPostRoot /\ SignedOverTimestampThenBody /\ BodyIsRead
                /\ WellFormedSignature) =>
              IF IsInteraction(req.body)
              THEN result = Some(Ok(InteractionOf(req.body)))
              ELSE FailedWith([type |-> "DeserializingInteraction", body |-> req.body],
                              Some("serde_json::Error"))
        /\ (RouteIsPostRoot /\ SignedOverTimestampThenBody /\ ~WellFormedSignature) =>
              FailedWith([type |-> "InvalidSignature"], Some("signature::Error"))
        /\ result[1].tag = "Ok" =>
              /\ RouteIsPostRoot /\ SignedOverTimestampThenBody /\ BodyIsRead
              /\ WellFormedSignature

C6_Witness ==
    /\ Completed /\ RouteIsPostRoot /\ SignedOverTimestampThenBody /\ BodyIsRead
    /\ SignatureHeader[1].case = "upper"
    /\ TimestampHeader = Some(<<"1", "7">>)
    /\ result = Some(Ok([type |-> 1]))

\* C7, as stated: into_parts returns the kind of the error together with the
\* cause into_source returns for the same error.
C7_IntoPartsReturnsSource ==
    out.op = "into_parts" =>
        /\ out.val[1] = result[1].val.kind
        /\ out.val[2] = into_source(result[1].val)

\* C8: response() returns status 200 with Content-Type: application/json and
\* a body that deserializes to the payload when the payload serializes, and
\* status 500 with the fixed text when it does not.
C8_ResponseBuilder ==
    out.op = "response" =>
        IF out.arg.serializes
        THEN /\ out.val.status = 200
             /\ {h \in out.val.headers : h[1] = "Content-Type"}
                    = {<<"Content-Type", "application/json">>}
             /\ FromJson(out.val.body) = Some(out.arg)
        ELSE /\ out.val.status = 500
             /\ out.val.body = <<"failed to serialize interaction response">>

C8_Witness ==
    /\ out.op = "response"
    /\ out.arg.serializes /\ out.arg.data = Some("hi") /\ out.arg.kind = 4
    /\ out.val.status = 200

\* C9, as stated: a call of request() with the inputs of an earlier call
\* returns what the earlier call returned, the same payload or the same kind
\* of error.
C9_SameInputsSameResult ==
    (Completed /\ calls >= 2 /\ prev # None) => Outcome(result[1]) = Outcome(prev[1])

\* C9, amended: a call of request() on a request whose body was not read
\* before returns what the earlier call with the same method, path, headers,
\* body and public key string returned; a call on the Request whose body an
\* earlier call started to read fails with ChunkingBody (BodyUsed), whatever
\* the earlier call returned.
C9_SameResultUnlessBodyUsed ==
    (Completed /\ calls >= 2) =>
        /\ (prev # None /\ ~reused) => result = prev
        /\ reused => FailedWith([type |-> "ChunkingBody"], Some("worker::Error::BodyUsed"))

C9_Witness ==
    /\ Completed /\ calls = 2 /\ ~reused
    /\ req.body_used /\ verifies = 1
    /\ result # None /\ result[1].tag = "Ok"
    /\ prev = result

\* C10: a call reads the body at most once, and only after the route check,
\* the two header lookups, the signature parse, the key decode and the key
\* validation have succeeded; a failed read returns ChunkingBody and no
\* signature is verified.
C10_BodyReadOnceAndLate ==
    /\ reads <= 1
    /\ reads = 1 =>
          /\ RouteIsPostRoot /\ BothHeaders /\ WellFormedSignature /\ KeyValid
          /\ Len(passed) >= 6
          /\ SubSeq(passed, 1, 6) = <<"route", "timestamp", "signature_header",
                                     "parse", "from_hex", "from_bytes">>
    /\ (Returned /\ ~(RouteIsPostRoot /\ BothHeaders /\ WellFormedSignature /\ KeyValid))
          => reads = 0 /\ body = None /\ ~req.body_used
    /\ (Completed /\ reads = 1 /\ ~BodyIsRead) =>
          /\ FailedWithKind("ChunkingBody")
          /\ result[1].val.source # None
          /\ verifies = 0
    /\ pc \in {"bytes_pending", "cancelled"} => reads = 1 /\ verifies = 0 /\ result = None
    /\ verifies >= 1 => reads = 1 /\ body # None /\ verifies = 1

C10_Witness ==
    /\ Completed /\ reads = 1 /\ ~req.readable /\ ~reused
    /\ FailedWith([type |-> "ChunkingBody"], Some("worker::Error"))
    /\ verifies = 0

====
